---- MODULE Spec2Model ----
(***************************************************************************)
(* PDF title extraction pipeline (src/main.py).                            *)
(*                                                                         *)
(* Python strings are modelled as sequences of one-character strings, so   *)
(* that re.sub, str.strip, re.search and "_".join are computed character   *)
(* by character.  The three fixed messages returned by processPdf are      *)
(* never inspected by any operation and are kept as one-symbol sequences.  *)
(***************************************************************************)
EXTENDS Integers, Sequences, FiniteSets, TLC

\* ------------------------------------------------------------------ bounds
MaxFiles == 2      \* PDF files found in ./books
MaxBoxes == 2      \* boxes in one layout-detection response
MaxFrags == 2      \* text fragments in one OCR result
MaxLen == 3        \* length of the free-form title strings given to form_title

\* --------------------------------------------------------- Python strings
Digits == {"0", "1", "2", "3", "4", "5", "6", "7", "8", "9"}

\* Characters of the modelled alphabet that do not match \w.
NonWord == {" ", ".", "-", "[", "]", ":"}

\* Characters removed by str.strip() with no argument.
Whitespace == {" "}

RECURSIVE DropRun(_, _)
\* s without its longest prefix made of characters of cs.
DropRun(s, cs) ==
    IF s # <<>> /\ Head(s) \in cs THEN DropRun(Tail(s), cs) ELSE s

RECURSIVE DropRunRight(_, _)
\* s without its longest suffix made of characters of cs.
DropRunRight(s, cs) ==
    IF s # <<>> /\ s[Len(s)] \in cs
    THEN DropRunRight(SubSeq(s, 1, Len(s) - 1), cs)
    ELSE s

\* str.strip(): both ends.
Strip(s, cs) == DropRunRight(DropRun(s, cs), cs)

RECURSIVE ReSubRuns(_, _)
\* re.sub(r'[cs]+', '_', s): every maximal run of characters of cs becomes "_".
ReSubRuns(s, cs) ==
    IF s = <<>> THEN <<>>
    ELSE IF Head(s) \in cs
         THEN <<"_">> \o ReSubRuns(DropRun(Tail(s), cs), cs)
         ELSE <<Head(s)>> \o ReSubRuns(Tail(s), cs)

\* re.sub(r'[^\w]+', '_', s)
SubNonWord(s) == ReSubRuns(s, NonWord)

\* ------------------------------------------------- creation-date handling
\* Positions where r'D:(\d{14})' matches in s.
DateMatches(s) ==
    {i \in 1..Len(s) :
        /\ i + 15 <= Len(s)
        /\ s[i] = "D"
        /\ s[i + 1] = ":"
        /\ \A k \in 2..15 : s[i + k] \in Digits}

\* re.search returns the leftmost match; group(1) is its 14 digits.
DateGroup(s) ==
    LET i == CHOOSE j \in DateMatches(s) : \A k \in DateMatches(s) : j <= k
    IN  SubSeq(s, i + 2, i + 15)

DigitVal(c) ==
    CASE c = "0" -> 0 [] c = "1" -> 1 [] c = "2" -> 2 [] c = "3" -> 3
      [] c = "4" -> 4 [] c = "5" -> 5 [] c = "6" -> 6 [] c = "7" -> 7
      [] c = "8" -> 8 [] c = "9" -> 9

DigitChar(n) ==
    CASE n = 0 -> "0" [] n = 1 -> "1" [] n = 2 -> "2" [] n = 3 -> "3"
      [] n = 4 -> "4" [] n = 5 -> "5" [] n = 6 -> "6" [] n = 7 -> "7"
      [] n = 8 -> "8" [] n = 9 -> "9"

RECURSIVE ToInt(_)
\* The number written by a sequence of digits.
ToInt(ds) ==
    IF ds = <<>> THEN 0
    ELSE 10 * ToInt(SubSeq(ds, 1, Len(ds) - 1)) + DigitVal(ds[Len(ds)])

RECURSIVE ZeroPad(_, _)
\* n written in w digits, zero padded (%m, %d, %H, %M, %S, and %Y for
\* years of four digits).
ZeroPad(n, w) ==
    IF w = 0 THEN <<>> ELSE ZeroPad(n \div 10, w - 1) \o <<DigitChar(n % 10)>>

IsLeap(y) == (y % 4 = 0 /\ y % 100 # 0) \/ y % 400 = 0

DaysInMonth(y, m) ==
    IF m = 2 THEN (IF IsLeap(y) THEN 29 ELSE 28)
    ELSE IF m \in {4, 6, 9, 11} THEN 30 ELSE 31

\* datetime.strptime(g, "%Y%m%d%H%M%S"): the fields of the 14 digits.
Strptime(g) ==
    [year   |-> ToInt(SubSeq(g, 1, 4)),
     month  |-> ToInt(SubSeq(g, 5, 6)),
     day    |-> ToInt(SubSeq(g, 7, 8)),
     hour   |-> ToInt(SubSeq(g, 9, 10)),
     minute |-> ToInt(SubSeq(g, 11, 12)),
     second |-> ToInt(SubSeq(g, 13, 14))]

\* strptime raises ValueError unless the fields form a datetime.
ValidDate(dt) ==
    /\ dt.year >= 1
    /\ dt.month \in 1..12
    /\ dt.day \in 1..DaysInMonth(dt.year, dt.month)
    /\ dt.hour \in 0..23
    /\ dt.minute \in 0..59
    /\ dt.second \in 0..59

\* dt.strftime("%Y-%m-%d_%H-%M-%S")
Strftime(dt) ==
    ZeroPad(dt.year, 4) \o <<"-">> \o ZeroPad(dt.month, 2) \o <<"-">>
        \o ZeroPad(dt.day, 2) \o <<"_">> \o ZeroPad(dt.hour, 2) \o <<"-">>
        \o ZeroPad(dt.minute, 2) \o <<"-">> \o ZeroPad(dt.second, 2)

\* The exception datetime.strptime raises; no string equals it.
ValueError == <<"ValueError">>

\* Lines 38-43: the creation date as it enters the formatted name.
FormatDate(creation_date) ==
    IF DateMatches(creation_date) # {}
    THEN LET dt == Strptime(DateGroup(creation_date))
         IN  IF ValidDate(dt) THEN Strftime(dt) ELSE ValueError
    ELSE SubNonWord(Strip(creation_date, Whitespace))

\* A bug that forgets to collapse the runs of underscores.
FormatAssembledNoCollapse(formatted) == Strip(formatted, {"_"})

\* Line 51: re.sub(r'_+', '_', formatted).strip('_')
FormatAssembled(formatted) == Strip(ReSubRuns(formatted, {"_"}), {"_"})

\* Lines 32-52.
form_title(title, author, creation_date) ==
    LET date == FormatDate(creation_date)
        t    == SubNonWord(Strip(title, Whitespace))
        a    == SubNonWord(Strip(author, Whitespace))
    IN  IF date = ValueError THEN ValueError
        ELSE FormatAssembled(t \o <<"[">> \o a \o <<"_">> \o date \o <<"]">>)


\* "_".join(texts), line 129.
RECURSIVE JoinUnderscore(_)
JoinUnderscore(texts) ==
    IF texts = <<>> THEN <<>>
    ELSE IF Len(texts) = 1 THEN texts[1]
         ELSE texts[1] \o <<"_">> \o JoinUnderscore(Tail(texts))

\* All sequences over S of length at most n.
RECURSIVE SeqsUpTo(_, _)
SeqsUpTo(S, n) ==
    IF n = 0 THEN {<<>>}
    ELSE SeqsUpTo(S, n - 1)
            \cup {Append(q, x) : q \in {r \in SeqsUpTo(S, n - 1) : Len(r) = n - 1}, x \in S}

\* ------------------------------------------------------------ sample data
Str_MyTitle == <<" ", "M", "y", " ", " ", "T", "i", "t", "l", "e", " ">>
Str_AB == <<"A", ".", " ", "B", ".">>
Str_2016 == <<"2", "0", "1", "6">>
Str_DeepLearning == <<"D", "e", "e", "p", " ", "L", "e", "a", "r", "n", "i", "n", "g">>
Str_IanGoodfellow == <<"I", "a", "n", " ", "G", "o", "o", "d", "f", "e", "l", "l", "o", "w">>
Str_PackedDate == <<"D", ":", "2", "0", "2", "3", "0", "9", "0", "1", "0", "0", "0", "0", "0", "0", "Z">>
Str_BadPackedDate == <<"D", ":", "2", "0", "2", "3", "1", "3", "0", "1", "0", "0", "0", "0", "0", "0">>
Str_Deep == <<"D", "e", "e", "p">>
Str_Learning == <<"L", "e", "a", "r", "n", "i", "n", "g">>

\* pdf.metadata, read with .get(key, ""): an absent key reads as "".
Metadatas ==
    {[Title |-> <<>>, Author |-> <<>>, CreationDate |-> <<>>],
     [Title |-> <<>>, Author |-> Str_AB, CreationDate |-> Str_2016],
     [Title |-> Str_MyTitle, Author |-> Str_AB, CreationDate |-> Str_2016],
     [Title |-> Str_DeepLearning, Author |-> Str_IanGoodfellow,
      CreationDate |-> Str_PackedDate],
     [Title |-> <<"D", "L">>, Author |-> <<>>, CreationDate |-> Str_BadPackedDate],
     [Title |-> <<" ">>, Author |-> <<>>, CreationDate |-> <<>>]}

\* A page: what extract_text() returns and how many images it embeds.
Pages == [text : {<<>>, <<"a", "b", "c">>}, images : 0..1]

\* An opened PDF: its pages (only the first is ever read) and its metadata.
Pdfs == [pages : {<<>>} \cup {<<p>> : p \in Pages}, metadata : Metadatas]

\* Box coordinates (x1, y1, x2, y2) are floats, kept here in tenths of a pixel.
CoordA == <<0, 0, 105, 59>>
CoordB == <<20, 0, 128, 87>>
CoordC == <<10, 0, 110, 55>>

\* Boxes of a layout-detection response; score in hundredths.
Boxes ==
    [label : {"doc_title"}, coordinate : {CoordA, CoordB, CoordC}, score : {40, 91}]
        \cup {[label |-> "text", coordinate |-> CoordB, score |-> 91]}

\* What model.predict returns: nothing, or one response with its boxes.
LayoutOutputs == {<<>>} \cup {<<[boxes |-> bs]>> : bs \in SeqsUpTo(Boxes, MaxBoxes)}

\* One recognized fragment: its text and its confidence in hundredths.
Fragments == [text : {Str_Deep, Str_Learning}, score : {10, 99}]

\* What ocr.predict returns: nothing, or one result with rec_texts, rec_scores.
OcrResults ==
    {<<>>} \cup
    {<<[rec_texts  |-> [i \in 1..Len(fs) |-> fs[i].text],
        rec_scores |-> [i \in 1..Len(fs) |-> fs[i].score]]>> :
        fs \in SeqsUpTo(Fragments, MaxFrags)}

\* ------------------------------------------------------------ the program
\* The strings processPdf returns (lines 170, 186, 194).
NO_PAGES == <<"No pages found in this PDF">>
EMPTY_PAGE == <<"Page 1 is empty">>
UNABLE_TO_READ == <<"System unable to read the first page">>

\* Python None where a string is expected.
None == <<"None">>

VARIABLES
    pdf_files_paths,   \* line 65: the files loop_dir found, in its order
    idx,               \* how many files the loop of line 200 has taken
    pc,                \* where the program is
    pdf,               \* the document opened at line 168
    has_text,          \* line 182
    has_image,         \* line 183
    first_page_jpg,    \* whether first_page.jpg was written (line 149)
    boxes,             \* response['boxes'] inside detect_title_and_crop
    title_box,         \* line 90/93; <<>> is None
    title_jpg,         \* the (x1, y1, x2, y2) saved as title.jpg; <<>> none
    title_image_path,  \* what detect_title_and_crop returned
    res,               \* the result of ocr.predict inside title_recognition
    full_title,        \* line 129
    ret,               \* what processPdf returned; <<>> before it returns
    calls,             \* per document: how often each collaborator was called
    printed,           \* the values printed by line 202, in order
    ft                 \* a form_title call on its own: arguments and results

vars == <<pdf_files_paths, idx, pc, pdf, has_text, has_image, first_page_jpg,
          boxes, title_box, title_jpg, title_image_path, res, full_title, ret,
          calls, printed, ft>>

\* No form_title call on its own is under way.
NoFt == [title |-> <<>>, author |-> <<>>, creation_date |-> <<>>, out |-> <<>>]

NoPdf == [pages |-> <<>>, metadata |-> [Title |-> <<>>, Author |-> <<>>, CreationDate |-> <<>>]]

NoCalls ==
    [form_title |-> 0, extract_text |-> 0, to_image |-> 0, layout |-> 0,
     crop |-> 0, ocr |-> 0]

Called(what) == calls' = [calls EXCEPT ![what] = @ + 1]

\* The locals of one processPdf call, before it runs.
FreshLocals ==
    /\ pdf' = NoPdf
    /\ has_text' = FALSE
    /\ has_image' = FALSE
    /\ first_page_jpg' = FALSE
    /\ boxes' = <<>>
    /\ title_box' = <<>>
    /\ title_jpg' = <<>>
    /\ title_image_path' = "None"
    /\ res' = <<>>
    /\ full_title' = None
    /\ ret' = <<>>
    /\ calls' = NoCalls

\* Line 58-65: loop_dir lists the PDF files; there may be none.
Init ==
    /\ pdf_files_paths \in {[i \in 1..n |-> i] : n \in 0..MaxFiles}
    /\ idx = 0
    /\ pc = "loop"
    /\ pdf = NoPdf
    /\ has_text = FALSE
    /\ has_image = FALSE
    /\ first_page_jpg = FALSE
    /\ boxes = <<>>
    /\ title_box = <<>>
    /\ title_jpg = <<>>
    /\ title_image_path = "None"
    /\ res = <<>>
    /\ full_title = None
    /\ ret = <<>>
    /\ calls = NoCalls
    /\ printed = <<>>
    /\ ft = NoFt

\* Line 200-202: the loop takes the next file and calls processPdf.
BatchLoopNext ==
    /\ pc = "loop"
    /\ idx < Len(pdf_files_paths)
    /\ idx' = idx + 1
    /\ pc' = "open"
    /\ FreshLocals
    /\ UNCHANGED <<ft, pdf_files_paths, printed>>

\* Line 200: no file is left.
BatchLoopEnd ==
    /\ pc = "loop"
    /\ idx = Len(pdf_files_paths)
    /\ pc' = "finished"
    /\ UNCHANGED <<ft, pdf_files_paths, idx, pdf, has_text, has_image, first_page_jpg,
                   boxes, title_box, title_jpg, title_image_path, res, full_title,
                   ret, calls, printed>>

\* An exception nothing catches: it leaves processPdf and the loop of line 200.
Raise ==
    /\ pc' = "crashed"
    /\ UNCHANGED <<ft, pdf_files_paths, idx, printed>>

\* A bug that consults the metadata before the page count.
NoPagesAfterMetadata(d) == Len(d.pages) = 0 /\ d.metadata.Title = <<>>

\* Line 169.
NoPages(d) == Len(d.pages) = 0

\* Line 168-170: open the file; a document without pages is answered at once.
processPdf_open ==
    /\ pc = "open"
    /\ \E d \in Pdfs :
        /\ pdf' = d
        /\ IF NoPages(d)
           THEN ret' = NO_PAGES /\ pc' = "return"
           ELSE ret' = ret /\ pc' = "metadata"
    /\ UNCHANGED <<ft, pdf_files_paths, idx, has_text, has_image, first_page_jpg, boxes,
                   title_box, title_jpg, title_image_path, res, full_title, calls,
                   printed>>

\* Line 168: pdfplumber.open raises on a file it cannot read.
processPdf_open_raises ==
    /\ pc = "open"
    /\ Raise
    /\ UNCHANGED <<pdf, has_text, has_image, first_page_jpg, boxes, title_box,
                   title_jpg, title_image_path, res, full_title, ret, calls>>

\* A bug that inverts the test of line 177.
UseMetadataInverted(metadata_title) == metadata_title = <<>>

\* Line 177: `if metadata_title:`.
UseMetadata(metadata_title) == metadata_title # <<>>

\* Line 173-178: a non-empty metadata title is formatted and returned.
processPdf_metadata ==
    /\ pc = "metadata"
    /\ LET metadata_title == pdf.metadata.Title
           metadata_author == pdf.metadata.Author
           metadata_creation_date == pdf.metadata.CreationDate
           formatted == form_title(metadata_title, metadata_author,
                                   metadata_creation_date)
       IN  IF UseMetadata(metadata_title)
           THEN /\ Called("form_title")
                /\ IF formatted = ValueError
                   THEN Raise /\ ret' = ret
                   ELSE /\ ret' = formatted
                        /\ pc' = "return"
                        /\ UNCHANGED <<ft, pdf_files_paths, idx, printed>>
           ELSE /\ pc' = "first_page"
                /\ UNCHANGED <<ft, pdf_files_paths, idx, printed, ret, calls>>
    /\ UNCHANGED <<pdf, has_text, has_image, first_page_jpg, boxes, title_box,
                   title_jpg, title_image_path, res, full_title>>

\* A bug that sends only pages without text to the OCR path.
NeedsOcrOnlyScanned(text, image) == image /\ ~text

\* A bug that sends every non-empty page to the OCR path.
NeedsOcrAnyContent(text, image) == image \/ text

\* Line 189: `if has_image:`.
NeedsOcr(text, image) == image

\* Line 181-190, and 194 for a page with text and no image.
processPdf_first_page ==
    /\ pc = "first_page"
    /\ LET first_page == pdf.pages[1]
           text == first_page.text # <<>>
           image == first_page.images > 0
       IN  /\ has_text' = text
           /\ has_image' = image
           /\ Called("extract_text")
           /\ IF ~text /\ ~image
              THEN ret' = EMPTY_PAGE /\ pc' = "return"
              ELSE IF NeedsOcr(text, image)
                   THEN ret' = ret /\ pc' = "capture_title"
                   ELSE ret' = UNABLE_TO_READ /\ pc' = "return"
    /\ UNCHANGED <<ft, pdf_files_paths, idx, pdf, first_page_jpg, boxes, title_box,
                   title_jpg, title_image_path, res, full_title, printed>>

\* Line 141-150: rasterise the first page and save it as first_page.jpg.
capture_title_to_image ==
    /\ pc = "capture_title"
    /\ Called("to_image")
    /\ first_page_jpg' = TRUE
    /\ pc' = "detect"
    /\ UNCHANGED <<ft, pdf_files_paths, idx, pdf, has_text, has_image, boxes, title_box,
                   title_jpg, title_image_path, res, full_title, ret, printed>>

\* Line 149: page.to_image or save raises.
capture_title_to_image_raises ==
    /\ pc = "capture_title"
    /\ Called("to_image")
    /\ Raise
    /\ UNCHANGED <<pdf, has_text, has_image, first_page_jpg, boxes, title_box,
                   title_jpg, title_image_path, res, full_title, ret>>

\* A bug that runs the recognition whatever detection returned.
RunOcrAlways(path) == TRUE

\* Line 154: `if title_image_path:`.
RunOcr(path) == path # "None"

\* Line 153-155, then 194: capture_title gets detect_title_and_crop's value,
\* runs the recognition on a path, and otherwise returns to processPdf,
\* which returns its last line.
capture_title_continue(path) ==
    /\ title_image_path' = path
    /\ boxes' = <<>>
    /\ title_box' = <<>>
    /\ IF RunOcr(path)
       THEN pc' = "title_recognition" /\ ret' = ret
       ELSE pc' = "return" /\ ret' = UNABLE_TO_READ

\* A bug that drops the break of line 101: the last doc_title box wins.
LastDocTitle(bs) ==
    LET hits == {i \in 1..Len(bs) : bs[i].label = "doc_title"}
    IN  IF hits = {} THEN <<>>
        ELSE bs[CHOOSE i \in hits : \A j \in hits : j <= i].coordinate

\* Line 90-93, 101: the coordinate of the first box labelled doc_title in the
\* order the model returned them; <<>> (None) when there is none.
FirstDocTitle(bs) ==
    LET hits == {i \in 1..Len(bs) : bs[i].label = "doc_title"}
    IN  IF hits = {} THEN <<>>
        ELSE bs[CHOOSE i \in hits : \A j \in hits : i <= j].coordinate

\* Line 95: map(int, title_box) truncates each float.
IntBox(c) == [i \in 1..4 |-> c[i] \div 10]

\* Line 80-93 and 103-105: run the layout model and look for the title box.
detect_title_and_crop_predict ==
    /\ pc = "detect"
    /\ Called("layout")
    /\ \E output \in LayoutOutputs :
        IF output = <<>>
        THEN capture_title_continue("None")
        ELSE LET found == FirstDocTitle(output[1].boxes)
             IN  IF found = <<>>
                 THEN capture_title_continue("None")
                 ELSE /\ boxes' = output[1].boxes
                      /\ title_box' = found
                      /\ pc' = "crop"
                      /\ UNCHANGED <<title_image_path, ret>>
    /\ UNCHANGED <<ft, pdf_files_paths, idx, pdf, has_text, has_image, first_page_jpg,
                   title_jpg, res, full_title, printed>>

\* Line 80-81: building or running the layout model raises.
detect_title_and_crop_predict_raises ==
    /\ pc = "detect"
    /\ Called("layout")
    /\ Raise
    /\ UNCHANGED <<pdf, has_text, has_image, first_page_jpg, boxes, title_box,
                   title_jpg, title_image_path, res, full_title, ret>>

\* Line 94-101 and 107: crop the box found, save title.jpg, return its path.
detect_title_and_crop_crop ==
    /\ pc = "crop"
    /\ Called("crop")
    /\ title_jpg' = IntBox(title_box)
    /\ capture_title_continue("title.jpg")
    /\ UNCHANGED <<ft, pdf_files_paths, idx, pdf, has_text, has_image, first_page_jpg,
                   res, full_title, printed>>

\* Line 94-99: opening, cropping or saving the image raises.
detect_title_and_crop_crop_raises ==
    /\ pc = "crop"
    /\ Raise
    /\ UNCHANGED <<pdf, has_text, has_image, first_page_jpg, boxes, title_box,
                   title_jpg, title_image_path, res, full_title, ret, calls>>

\* Line 118-130: recognise the text of title.jpg; the joined title is printed
\* and the function returns nothing.  Then line 194.
title_recognition ==
    /\ pc = "title_recognition"
    /\ Called("ocr")
    /\ \E result \in OcrResults :
        /\ res' = result
        /\ full_title' = IF result = <<>> THEN None
                         ELSE JoinUnderscore(result[1].rec_texts)
    /\ ret' = UNABLE_TO_READ
    /\ pc' = "return"
    /\ UNCHANGED <<ft, pdf_files_paths, idx, pdf, has_text, has_image, first_page_jpg,
                   boxes, title_box, title_jpg, title_image_path, printed>>

\* Line 118-119: building or running the OCR model raises.
title_recognition_raises ==
    /\ pc = "title_recognition"
    /\ Called("ocr")
    /\ Raise
    /\ UNCHANGED <<pdf, has_text, has_image, first_page_jpg, boxes, title_box,
                   title_jpg, title_image_path, res, full_title, ret>>

\* Line 202: the value processPdf returned is printed.
BatchLoopEmit ==
    /\ pc = "return"
    /\ printed' = Append(printed, ret)
    /\ pc' = "loop"
    /\ UNCHANGED <<ft, pdf_files_paths, idx, pdf, has_text, has_image, first_page_jpg,
                   boxes, title_box, title_jpg, title_image_path, res, full_title,
                   ret, calls>>

Next ==
    \/ BatchLoopNext
    \/ BatchLoopEnd
    \/ processPdf_open
    \/ processPdf_open_raises
    \/ processPdf_metadata
    \/ processPdf_first_page
    \/ capture_title_to_image
    \/ capture_title_to_image_raises
    \/ detect_title_and_crop_predict
    \/ detect_title_and_crop_predict_raises
    \/ detect_title_and_crop_crop
    \/ detect_title_and_crop_crop_raises
    \/ title_recognition
    \/ title_recognition_raises
    \/ BatchLoopEmit

Spec == Init /\ [][Next]_vars

\* --------------------------------------------- form_title called on its own
\* Characters of the free-form titles.
Alphabet == {"a", "_", " ", "["}

FormAuthors == {<<>>, <<"a">>, <<"_">>, Str_AB}

FormDates == {<<>>, Str_2016, <<" ">>, <<"-">>, Str_PackedDate, Str_BadPackedDate}

\* Line 32: any three strings may be passed.
InitForm ==
    /\ pdf_files_paths = <<>>
    /\ idx = 0
    /\ pc = "form_title"
    /\ pdf = NoPdf
    /\ has_text = FALSE
    /\ has_image = FALSE
    /\ first_page_jpg = FALSE
    /\ boxes = <<>>
    /\ title_box = <<>>
    /\ title_jpg = <<>>
    /\ title_image_path = "None"
    /\ res = <<>>
    /\ full_title = None
    /\ ret = <<>>
    /\ calls = NoCalls
    /\ printed = <<>>
    /\ ft \in [title : SeqsUpTo(Alphabet, MaxLen), author : FormAuthors,
               creation_date : FormDates, out : {<<>>}]

batch_vars == <<pdf_files_paths, idx, pdf, has_text, has_image, first_page_jpg,
                boxes, title_box, title_jpg, title_image_path, res, full_title,
                ret, calls, printed>>

\* Line 32-52: r = form_title(title, author, creation_date).
FormApply ==
    /\ pc = "form_title"
    /\ ft.out = <<>>
    /\ LET r == form_title(ft.title, ft.author, ft.creation_date)
       IN  IF r = ValueError
           THEN pc' = "crashed" /\ ft' = ft
           ELSE pc' = pc /\ ft' = [ft EXCEPT !.out = <<r>>]
    /\ UNCHANGED batch_vars

\* Line 32-52: form_title(r, "", "") on the latest result r.
FormReapply ==
    /\ pc = "form_title"
    /\ Len(ft.out) \in 1..2
    /\ ft' = [ft EXCEPT !.out = Append(@, form_title(ft.out[Len(ft.out)], <<>>, <<>>))]
    /\ UNCHANGED <<pc, batch_vars>>

NextForm == FormApply \/ FormReapply

SpecForm == InitForm /\ [][NextForm]_vars

\* ------------------------------------------------------------------ claims
\* The document being processed reached the OCR path: it has a page, its
\* metadata title is empty and its first page embeds an image.
OnOcrPath ==
    /\ Len(pdf.pages) >= 1
    /\ pdf.metadata.Title = <<>>
    /\ pdf.pages[1].images > 0

\* C1: a batch of N files yields N outcomes: when the program has ended, it
\* has printed one result per enumerated file, whatever failed on the way.
C1_BatchYieldsAllOutcomes ==
    pc \in {"finished", "crashed"} => Len(printed) = Len(pdf_files_paths)

\* C2: on the OCR path, when a doc_title box was cropped and the recognition
\* returned fragments, processPdf returns their texts joined with "_".
C2_AssembledTitleReturned ==
    (pc = "return" /\ OnOcrPath /\ calls.crop = 1 /\ calls.ocr = 1 /\ res # <<>>)
        => ret = JoinUnderscore(res[1].rec_texts)

\* The result the specification names for a page without title region.
NO_TITLE_DETECTED == <<"no title detected">>

\* C3: on the OCR path, when rasterisation succeeded and detection returned
\* no output or no doc_title box, processPdf returns the "no title detected"
\* result, which is not the "unable to read the first page" one.
C3_NoTitleDetectedReturned ==
    (pc = "return" /\ OnOcrPath /\ first_page_jpg /\ calls.layout = 1
        /\ title_image_path = "None")
        => (ret = NO_TITLE_DETECTED /\ ret # UNABLE_TO_READ)

Area(c) == (c[3] - c[1]) * (c[4] - c[2])

\* Box a is preferred to box b: higher score, then larger area, then leftmost.
Preferred(a, b) ==
    \/ a.score > b.score
    \/ a.score = b.score /\ Area(a.coordinate) > Area(b.coordinate)
    \/ a.score = b.score /\ Area(a.coordinate) = Area(b.coordinate)
        /\ a.coordinate[1] < b.coordinate[1]

\* The coordinates of the doc_title boxes no other doc_title box is preferred to.
BestDocTitles(bs) ==
    {bs[i].coordinate : i \in {k \in 1..Len(bs) :
        /\ bs[k].label = "doc_title"
        /\ \A j \in 1..Len(bs) :
            bs[j].label = "doc_title" => ~Preferred(bs[j], bs[k])}}

C5_ZeroPages ==
    Len(pdf.pages) = 0 =>
        /\ pc \in {"loop", "open", "return", "finished", "crashed"}
        /\ pc = "return" => ret = NO_PAGES
        /\ calls = NoCalls
        /\ ~first_page_jpg
        /\ title_jpg = <<>>

\* A zero-page document with a metadata title has returned "no pages".
C5_Witness ==
    /\ pc = "return"
    /\ Len(pdf.pages) = 0
    /\ pdf.metadata.Title = Str_DeepLearning
    /\ ret = NO_PAGES

\* C6: on the OCR path, when nothing failed, the first page was rasterised
\* exactly once and the layout model was run exactly once, with or without
\* text on the page; neither is ever done twice.
C6_RasterAndDetectOnce ==
    /\ calls.to_image <= 1
    /\ calls.layout <= 1
    /\ (pc = "return" /\ OnOcrPath) => (calls.to_image = 1 /\ calls.layout = 1)

\* A first page with both text and an image went through both steps.
C6_Witness ==
    /\ pc = "return"
    /\ OnOcrPath
    /\ pdf.pages[1].text # <<>>
    /\ has_text /\ has_image
    /\ calls.to_image = 1 /\ calls.layout = 1

\* The document reached the visual check with text and no image on page one.
TextOnlyPage ==
    /\ Len(pdf.pages) >= 1
    /\ pdf.metadata.Title = <<>>
    /\ pdf.pages[1].text # <<>>
    /\ pdf.pages[1].images = 0

\* C7: a first page with text and no image returns the "unable to read the
\* first page" result, and is never rasterised, detected, cropped or recognised.
C7_TextOnlyFallsBack ==
    TextOnlyPage =>
        /\ pc = "return" => ret = UNABLE_TO_READ
        /\ calls.to_image = 0 /\ calls.layout = 0 /\ calls.crop = 0 /\ calls.ocr = 0
        /\ ~first_page_jpg
        /\ title_jpg = <<>>
        /\ pc \notin {"capture_title", "detect", "crop", "title_recognition"}

\* Such a page was classified and has returned the fallback.
C7_Witness ==
    /\ pc = "return"
    /\ TextOnlyPage
    /\ calls.extract_text = 1
    /\ has_text /\ ~has_image
    /\ ret = UNABLE_TO_READ

\* C8: a document with a page and a non-empty metadata title returns
\* form_title(title, author, creation date); its first page is never
\* classified, nothing is rasterised or written, no model is run.
C8_MetadataFastPath ==
    (Len(pdf.pages) >= 1 /\ pdf.metadata.Title # <<>>) =>
        /\ pc = "return" =>
            /\ ret = form_title(pdf.metadata.Title, pdf.metadata.Author,
                                pdf.metadata.CreationDate)
            /\ calls.form_title = 1
        /\ calls.extract_text = 0
        /\ calls.to_image = 0 /\ calls.layout = 0 /\ calls.crop = 0 /\ calls.ocr = 0
        /\ ~first_page_jpg
        /\ title_jpg = <<>>
        /\ pc \notin {"first_page", "capture_title", "detect", "crop",
                      "title_recognition"}

Str_DeepLearningFormatted == <<"D", "e", "e", "p", "_", "L", "e", "a", "r", "n", "i", "n", "g", "[", "I", "a", "n", "_", "G", "o", "o", "d", "f", "e", "l", "l", "o", "w", "_", "2", "0", "2", "3", "-", "0", "9", "-", "0", "1", "_", "0", "0", "-", "0", "0", "-", "0", "0", "]">>

\* "Deep Learning" by "Ian Goodfellow", created D:20230901000000Z, returned.
C8_Witness ==
    /\ pc = "return"
    /\ Len(pdf.pages) >= 1
    /\ pdf.metadata.Title = Str_DeepLearning
    /\ pdf.metadata.CreationDate = Str_PackedDate
    /\ ret = Str_DeepLearningFormatted
    /\ calls.form_title = 1

\* C9 as stated: with r = form_title(title, author, date),
\* form_title(r, "", "") = r.
C9_Idempotent ==
    Len(ft.out) >= 2 => ft.out[2] = ft.out[1]

\* C9 amended: with r = form_title(title, author, date) and
\* r2 = form_title(r, "", ""), form_title(r2, "", "") = r2.
C9_StableAfterReapply ==
    Len(ft.out) >= 3 => ft.out[3] = ft.out[2]

\* A first re-application changed the string and a second one did not.
C9_Witness ==
    /\ Len(ft.out) = 3
    /\ ft.title = <<"a">>
    /\ ft.out[2] # ft.out[1]
    /\ ft.out[3] = ft.out[2]

\* C10: per document at most one region is cropped and saved, the OCR model
\* is run at most once, and it is run exactly when a region was cropped: never
\* when detection gave no output or no doc_title box.
C10_OneCropOcrIffCropped ==
    /\ calls.crop <= 1
    /\ calls.ocr <= calls.crop
    /\ (title_jpg # <<>>) <=> (calls.crop = 1)
    /\ pc = "return" => calls.ocr = calls.crop
    /\ (pc = "return" /\ title_image_path = "None") => calls.ocr = 0

\* A title region was found, cropped once and recognised once.
C10_Witness ==
    /\ pc = "return"
    /\ OnOcrPath
    /\ calls.layout = 1
    /\ title_image_path = "title.jpg"
    /\ title_jpg = <<0, 0, 10, 5>>
    /\ calls.crop = 1 /\ calls.ocr = 1

====
